---- MODULE Spec2Model ----
(***************************************************************************)
(* Ontolearn: the concept-construction layer (ConceptGenerator) of the     *)
(* refinement-based concept learner.                                       *)
(*                                                                         *)
(* Concept objects live in a heap (the sequence `heap`); the identity of a *)
(* Concept is its index in the heap.  The registry and the five memo       *)
(* tables are Python dicts, modelled as functions whose DOMAIN is the set  *)
(* of keys present.  Strings are sequences of Unicode code points so that  *)
(* Python's string comparison and formatting are modelled as they work.    *)
(***************************************************************************)
EXTENDS Integers, Sequences, FiniteSets, TLC

(***************************************************************************)
(* Bounds of the model.                                                    *)
(***************************************************************************)
NumIndividuals == 3
MaxCalls == 2

Individuals == 1..NumIndividuals

(***************************************************************************)
(* Strings.                                                                *)
(***************************************************************************)
ThingStr == <<84, 104, 105, 110, 103>>
NothingStr == <<78, 111, 116, 104, 105, 110, 103>>
AStr == <<65>>
BStr == <<66>>
RoleNames == {<<114>>}

RECURSIVE StrLess(_, _)
StrLess(s, t) ==
    IF t = <<>> THEN FALSE
    ELSE IF s = <<>> THEN TRUE
    ELSE IF Head(s) # Head(t) THEN Head(s) < Head(t)
    ELSE StrLess(Tail(s), Tail(t))

NegationName(name) == <<172>> \o name
ExistentialName(role, str) == <<40, 8707>> \o role \o <<46>> \o str \o <<41>>
UniversalName(role, str) == <<40, 8704>> \o role \o <<46>> \o str \o <<41>>
UnionName(strA, strB) == <<40>> \o strA \o <<32, 8852, 32>> \o strB \o <<41>>
IntersectionName(strA, strB) ==
    <<40>> \o strA \o <<32, 32, 8851, 32, 32>> \o strB \o <<41>>

namespace_base_iri == "https://dice-research.org/"
OwlBaseIri == "http://www.w3.org/2002/07/owl#"
OntoBaseIri == "http://example.com/kb#"

\* base_iri + name; the bases are fixed prefixes, so the pair is the string
FullIri(base, name) == <<base, name>>

(***************************************************************************)
(* Concept objects.                                                        *)
(***************************************************************************)
NoObj == 0
NoRole == <<>>

NewConcept(base, name, form, a, b, role, inst) ==
    [str |-> name, full_iri |-> FullIri(base, name), form |-> form,
     a |-> a, b |-> b, role |-> role, instances |-> inst]

T == 1
Bottom == 2
NumInitial == 4

VARIABLES heap, concepts, log_of_negations, log_of_unions,
          log_of_intersections, log_of_existential_restriction,
          log_of_universal_restriction, relations, min_size_of_concept,
          max_size_of_concept, call, calls, earlier

\* the ontology the generator was constructed with: its classes and its
\* disjointness axioms
VARIABLES onto

\* the callers racing on one generator
VARIABLES workers

\* a learner, its search tree and its run
VARIABLES learner, run, nodes, tree, concepts_to_nodes, problem, report,
          enriched

\* a triple store, the queries posted to it and the answer the caller got
VARIABLES backend, posts, reply

\* a call of getCombos: the frames of decompose, the lists they share and
\* the list of combinations collected so far
VARIABLES frames, lists, combosTmp, combo

\* the construction of the generator: its outcome and the bounds given
VARIABLES made

\* a call of incCrossProduct: the set objects it works on and its position
VARIABLES sets, product

logs == <<log_of_negations, log_of_unions, log_of_intersections,
          log_of_existential_restriction, log_of_universal_restriction>>
kb == <<relations, min_size_of_concept, max_size_of_concept>>
search == <<learner, run, nodes, tree, concepts_to_nodes, problem, report,
            enriched>>
store == <<backend, posts, reply>>
combos == <<frames, lists, combosTmp, combo>>
cross == <<sets, product>>
util == <<store, combos, made, cross>>
vars == <<heap, concepts, logs, kb, onto, call, calls, earlier, workers,
          search, util>>

\* len(concept)
ConceptLen(c) == Cardinality(heap[c].instances)

\* a dict after d[k] = v
Put(d, k, v) == [x \in DOMAIN d \cup {k} |-> IF x = k THEN v ELSE d[x]]

EmptyDict == [x \in {} |-> NoObj]

\* keys of log_of_negations: a Concept object, or a full_iri string
ObjKey(c) == [obj |-> c, iri |-> <<"", <<>>>>]
IriKey(iri) == [obj |-> NoObj, iri |-> iri]

(***************************************************************************)
(* ConceptGenerator: helpers.                                              *)
(***************************************************************************)
\* a sorter that leaves operands of equal len in the order given
ConceptsSorterNoTieBreak(A, B) ==
    IF ConceptLen(A) > ConceptLen(B) THEN <<B, A>> ELSE <<A, B>>

\* __concepts_sorter(A, B): ascending len, ties by a stable sort on str
ConceptsSorter(A, B) ==
    IF ConceptLen(A) < ConceptLen(B) THEN <<A, B>>
    ELSE IF ConceptLen(A) > ConceptLen(B) THEN <<B, A>>
    ELSE IF StrLess(heap[B].str, heap[A].str) THEN <<B, A>>
    ELSE <<A, B>>

\* the existential branch collecting the object of a pair, as the universal
\* branch does
GetInstancesForRestrictionsObject(exist, role, filler) ==
    IF exist
    THEN {p[2] : p \in {q \in relations[role] : q[2] \in heap[filler].instances}}
    ELSE heap[T].instances \
         {p[2] : p \in {q \in relations[role] : q[2] \notin heap[filler].instances}}

\* get_instances_for_restrictions(exist, role, filler)
GetInstancesForRestrictions(exist, role, filler) ==
    IF exist
    THEN {p[1] : p \in {q \in relations[role] : q[2] \in heap[filler].instances}}
    ELSE heap[T].instances \
         {p[2] : p \in {q \in relations[role] : q[2] \notin heap[filler].instances}}

\* self.max_size_of_concept >= len(possible_instances_) >= self.min_size_of_concept
InSizeBounds(inst) ==
    /\ max_size_of_concept >= Cardinality(inst)
    /\ Cardinality(inst) >= min_size_of_concept

NegationInstances(c) == heap[T].instances \ heap[c].instances
UnionInstancesFirstOnly(A, B) == heap[A].instances
UnionInstances(A, B) == heap[A].instances \cup heap[B].instances
IntersectionInstances(A, B) == heap[A].instances \cap heap[B].instances

\* the outcome of one call: the returned object, the heap, the registry and
\* the memo table of the operation after the call
Outcome(ret, objs, reg, log, collapsed) ==
    [ret |-> ret, objs |-> objs, reg |-> reg, log |-> log,
     collapsed |-> collapsed]

\* a memo hit, a shortcut or a collapse: nothing is created or stored
Returned(ret, log, collapsed) == Outcome(ret, heap, concepts, log, collapsed)

\* a creation that memoises the concept and leaves it out of the registry
CreatedUnregistered(c, log, key) ==
    Outcome(Len(heap) + 1, Append(heap, c), concepts,
            Put(log, key, Len(heap) + 1), FALSE)

\* c = Concept(...); c.instances = ...; log[key] = c; self.concepts[c.full_iri] = c
Created(c, log, key) ==
    Outcome(Len(heap) + 1, Append(heap, c),
            Put(concepts, c.full_iri, Len(heap) + 1),
            Put(log, key, Len(heap) + 1), FALSE)

(***************************************************************************)
(* ConceptGenerator: the five derivations.                                 *)
(***************************************************************************)
\* the memo looked up under the concept's full_iri instead of the concept
NegationMemoByIri(c) ==
    IF IriKey(heap[c].full_iri) \in DOMAIN log_of_negations
    THEN log_of_negations[IriKey(heap[c].full_iri)]
    ELSE NoObj

\* if concept in self.log_of_negations: return self.log_of_negations[concept]
NegationMemo(c) ==
    IF ObjKey(c) \in DOMAIN log_of_negations
    THEN log_of_negations[ObjKey(c)]
    ELSE NoObj

negation(c) ==
    IF NegationMemo(c) # NoObj
    THEN Returned(NegationMemo(c), log_of_negations, FALSE)
    ELSE IF heap[c].str # ThingStr
    THEN Created(NewConcept(namespace_base_iri, NegationName(heap[c].str),
                            "ObjectComplementOf", c, NoObj, NoRole,
                            NegationInstances(c)),
                 log_of_negations, ObjKey(c))
    ELSE IF heap[c].form = "ObjectComplementOf"
    THEN Returned(concepts[FullIri(heap[c].full_iri[1], Tail(heap[c].str))],
                  log_of_negations, FALSE)
    ELSE Returned(Bottom,
                  Put(Put(log_of_negations, IriKey(heap[c].full_iri), Bottom),
                      IriKey(heap[Bottom].full_iri), c),
                  FALSE)

existential_restriction(c, r) ==
    LET possible_instances_ == GetInstancesForRestrictions(TRUE, r, c) IN
    IF <<c, r>> \in DOMAIN log_of_existential_restriction
    THEN Returned(log_of_existential_restriction[<<c, r>>],
                  log_of_existential_restriction, FALSE)
    ELSE IF ~InSizeBounds(possible_instances_)
    THEN Returned(Bottom, log_of_existential_restriction, TRUE)
    ELSE Created(NewConcept(namespace_base_iri,
                            ExistentialName(r, heap[c].str),
                            "ObjectSomeValuesFrom", c, NoObj, r,
                            possible_instances_),
                 log_of_existential_restriction, <<c, r>>)

universal_restriction(c, r) ==
    LET possible_instances_ == GetInstancesForRestrictions(FALSE, r, c) IN
    IF <<c, r>> \in DOMAIN log_of_universal_restriction
    THEN Returned(log_of_universal_restriction[<<c, r>>],
                  log_of_universal_restriction, FALSE)
    ELSE IF ~InSizeBounds(possible_instances_)
    THEN Returned(Bottom, log_of_universal_restriction, TRUE)
    ELSE Created(NewConcept(namespace_base_iri,
                            UniversalName(r, heap[c].str),
                            "ObjectAllValuesFrom", c, NoObj, r,
                            possible_instances_),
                 log_of_universal_restriction, <<c, r>>)

\* the workaround returning the operand named Nothing itself
UnionWorkaroundSame(A, B) ==
    IF heap[A].str = NothingStr THEN A
    ELSE IF heap[B].str = NothingStr THEN B
    ELSE NoObj

\* the "crude workaround" of union: the operand returned when the other one
\* is named Nothing, NoObj when neither is
UnionWorkaround(A, B) ==
    IF heap[A].str = NothingStr THEN B
    ELSE IF heap[B].str = NothingStr THEN A
    ELSE NoObj

\* a collapse memoised as Bottom, as intersection does for Nothing
UnionCollapseLogged(key) == Put(log_of_unions, key, Bottom)

\* what union leaves in its memo table when the size check fails
UnionCollapseLog(key) == log_of_unions

union(X, Y) ==
    LET s == ConceptsSorter(X, Y)
        A == s[1]
        B == s[2]
        possible_instances_ == UnionInstances(A, B)
    IN
    IF UnionWorkaround(A, B) # NoObj
    THEN Returned(UnionWorkaround(A, B), log_of_unions, FALSE)
    ELSE IF <<A, B>> \in DOMAIN log_of_unions
    THEN Returned(log_of_unions[<<A, B>>], log_of_unions, FALSE)
    ELSE IF ~InSizeBounds(possible_instances_)
    THEN Returned(Bottom, UnionCollapseLog(<<A, B>>), TRUE)
    ELSE Created(NewConcept(namespace_base_iri,
                            UnionName(heap[A].str, heap[B].str),
                            "ObjectUnionOf", A, B, NoRole,
                            possible_instances_),
                 log_of_unions, <<A, B>>)

intersection(X, Y) ==
    LET s == ConceptsSorter(X, Y)
        A == s[1]
        B == s[2]
        possible_instances_ == IntersectionInstances(A, B)
    IN
    IF <<A, B>> \in DOMAIN log_of_intersections
    THEN Returned(log_of_intersections[<<A, B>>], log_of_intersections, FALSE)
    ELSE IF heap[A].str = NothingStr \/ heap[B].str = NothingStr
    THEN Returned(Bottom, Put(log_of_intersections, <<A, B>>, Bottom), FALSE)
    ELSE IF ~InSizeBounds(possible_instances_)
    THEN Returned(Bottom, log_of_intersections, TRUE)
    ELSE Created(NewConcept(namespace_base_iri,
                            IntersectionName(heap[A].str, heap[B].str),
                            "ObjectIntersectionOf", A, B, NoRole,
                            possible_instances_),
                 log_of_intersections, <<A, B>>)

(***************************************************************************)
(* The state machine: one action per derivation request.                   *)
(***************************************************************************)
NoCall == [op |-> "none", a |-> NoObj, b |-> NoObj, role |-> NoRole,
           ret |-> NoObj, collapsed |-> FALSE]

Request(op, a, b, role, out) ==
    [op |-> op, a |-> a, b |-> b, role |-> role, ret |-> out.ret,
     collapsed |-> out.collapsed]

\* the knowledge bases and size bounds the generator is constructed over
AtomAInstances == {{1, 2}, Individuals}
AtomBInstances == {{2, NumIndividuals}}
RoleRelations == {{<<1, 2>>, <<2, 3>>}}
SizeBounds == {<<1, NumIndividuals>>, <<2, 2>>}

\* no caller is racing
NoWorkers == workers = <<>>

\* no exception
NoError == [type |-> "None", message |-> <<>>]

\* a backend that answers with no rows
Answering == [post |-> NoError, json |-> NoError, rows |-> <<>>]

\* no query has been posted to the triple store
NoStore ==
    /\ backend = Answering
    /\ posts = <<>>
    /\ reply = [op |-> "none", ce |-> "None", direct |-> FALSE,
                only_named |-> TRUE, posted |-> 0, results |-> <<>>,
                error |-> NoError]

\* getCombos has not been called
NoCombos ==
    /\ frames = <<>>
    /\ lists = <<>>
    /\ combosTmp = <<>>
    /\ combo = [phase |-> "idle", length |-> 0, max_length |-> 0,
                result |-> <<>>]

\* incCrossProduct has not been called
NoProduct ==
    /\ sets = <<>>
    /\ product = [phase |-> "idle", baseset |-> 0, newset |-> 0,
                  retset |-> 0, is |-> <<>>, js |-> <<>>, i |-> 1, j |-> 1]

NoUtil == NoStore /\ NoCombos /\ NoProduct

\* no learner has been constructed
NoLearner ==
    /\ learner = [status |-> "none"]
    /\ run = [phase |-> "none"]
    /\ nodes = <<>>
    /\ tree = <<>>
    /\ concepts_to_nodes = <<>>
    /\ problem = [pos |-> {}, neg |-> {}]
    /\ report = [op |-> "none"]
    /\ enriched = {}

\* the concepts, the roles and the ontology a generator is constructed
\* with, and its empty memo tables
GivenKB ==
    /\ \E ia \in AtomAInstances, ib \in AtomBInstances :
         heap = << NewConcept(OwlBaseIri, ThingStr, "Class", NoObj, NoObj,
                              NoRole, Individuals),
                   NewConcept(OwlBaseIri, NothingStr, "Class", NoObj, NoObj,
                              NoRole, {}),
                   NewConcept(OntoBaseIri, AStr, "Class", NoObj, NoObj,
                              NoRole, ia),
                   NewConcept(OntoBaseIri, BStr, "Class", NoObj, NoObj,
                              NoRole, ib) >>
    /\ concepts = [i \in {FullIri(OwlBaseIri, ThingStr),
                          FullIri(OwlBaseIri, NothingStr),
                          FullIri(OntoBaseIri, AStr),
                          FullIri(OntoBaseIri, BStr)} |->
                     CHOOSE c \in 1..NumInitial : heap[c].full_iri = i]
    /\ log_of_intersections = EmptyDict
    /\ log_of_unions = EmptyDict
    /\ log_of_negations = EmptyDict
    /\ log_of_universal_restriction = EmptyDict
    /\ log_of_existential_restriction = EmptyDict
    /\ \E rel \in RoleRelations : relations = [r \in RoleNames |-> rel]
    /\ onto = [classes |-> {heap[c].str : c \in {3, 4}}, disjoint |-> {}]
    /\ call = NoCall
    /\ calls = 0
    /\ earlier = NoCall

\* the outcome of ConceptGenerator(..., max_size_of_concept,
\* min_size_of_concept)
Made(status, max, min) == [status |-> status, max |-> max, min |-> min]

\* a generator constructed with one of the pairs of bounds
GeneratorInit ==
    /\ GivenKB
    /\ \E sb \in SizeBounds :
         /\ min_size_of_concept = sb[1]
         /\ max_size_of_concept = sb[2]
         /\ sb[2] = NumIndividuals \/ heap[3].instances # Individuals
         /\ made = Made("constructed", sb[2], sb[1])

Init == GeneratorInit /\ NoWorkers /\ NoLearner /\ NoUtil

Objects == 1..Len(heap)

\* with self.onto: types.new_class(name=..., bases=...): the class of a
\* created concept is declared in the ontology; negation also declares it
\* disjoint with its operand (AllDisjoint)
Declared(op, a, objs) ==
    IF Len(objs) = Len(heap) THEN onto
    ELSE [classes |-> onto.classes \cup {objs[Len(objs)].str},
          disjoint |-> IF op = "negation"
                       THEN onto.disjoint
                              \cup {<<objs[Len(objs)].str, heap[a].str>>}
                       ELSE onto.disjoint]

\* the effect of a request on the heap, the registry, the ontology and the
\* call record
Effect(op, a, b, role, out) ==
    /\ calls < MaxCalls
    /\ calls' = calls + 1
    /\ heap' = out.objs
    /\ concepts' = out.reg
    /\ call' = Request(op, a, b, role, out)
    /\ onto' = Declared(op, a, out.objs)
    /\ UNCHANGED <<kb, workers, search, util>>

Negation(c) ==
    LET out == negation(c) IN
    /\ Effect("negation", c, NoObj, NoRole, out)
    /\ log_of_negations' = out.log
    /\ UNCHANGED <<log_of_unions, log_of_intersections,
                   log_of_existential_restriction,
                   log_of_universal_restriction>>

ExistentialRestriction(c, r) ==
    LET out == existential_restriction(c, r) IN
    /\ Effect("existential_restriction", c, NoObj, r, out)
    /\ log_of_existential_restriction' = out.log
    /\ UNCHANGED <<log_of_unions, log_of_intersections, log_of_negations,
                   log_of_universal_restriction>>

UniversalRestriction(c, r) ==
    LET out == universal_restriction(c, r) IN
    /\ Effect("universal_restriction", c, NoObj, r, out)
    /\ log_of_universal_restriction' = out.log
    /\ UNCHANGED <<log_of_unions, log_of_intersections, log_of_negations,
                   log_of_existential_restriction>>

Union(A, B) ==
    LET out == union(A, B) IN
    /\ Effect("union", A, B, NoRole, out)
    /\ log_of_unions' = out.log
    /\ UNCHANGED <<log_of_intersections, log_of_negations,
                   log_of_existential_restriction,
                   log_of_universal_restriction>>

Intersection(A, B) ==
    LET out == intersection(A, B) IN
    /\ Effect("intersection", A, B, NoRole, out)
    /\ log_of_intersections' = out.log
    /\ UNCHANGED <<log_of_unions, log_of_negations,
                   log_of_existential_restriction,
                   log_of_universal_restriction>>

\* a run of derivation requests
Next ==
    \/ \E c \in Objects : Negation(c) /\ UNCHANGED earlier
    \/ \E c \in Objects, r \in RoleNames :
         ExistentialRestriction(c, r) /\ UNCHANGED earlier
    \/ \E c \in Objects, r \in RoleNames :
         UniversalRestriction(c, r) /\ UNCHANGED earlier
    \/ \E A \in Objects, B \in Objects : Union(A, B) /\ UNCHANGED earlier
    \/ \E A \in Objects, B \in Objects : Intersection(A, B) /\ UNCHANGED earlier

Spec == Init /\ [][Next]_vars

\* a run in which one request, any one, is remembered with its return value
\* to be compared with the requests made after it
Remember == earlier = NoCall /\ earlier' = call'

NextRepeat ==
    \/ \E c \in Objects : Negation(c) /\ (UNCHANGED earlier \/ Remember)
    \/ \E c \in Objects, r \in RoleNames :
         ExistentialRestriction(c, r) /\ (UNCHANGED earlier \/ Remember)
    \/ \E c \in Objects, r \in RoleNames :
         UniversalRestriction(c, r) /\ (UNCHANGED earlier \/ Remember)
    \/ \E A \in Objects, B \in Objects :
         Union(A, B) /\ (UNCHANGED earlier \/ Remember)
    \/ \E A \in Objects, B \in Objects :
         Intersection(A, B) /\ (UNCHANGED earlier \/ Remember)

SpecRepeat == Init /\ [][NextRepeat]_vars

TypeOK ==
    /\ Len(heap) \in NumInitial..(NumInitial + MaxCalls)
    /\ calls \in 0..MaxCalls
    /\ call.ret \in 0..Len(heap)

(***************************************************************************)
(* ConceptGenerator: construction with the bounds on the size of a         *)
(* concept, followed by derivations.                                       *)
(***************************************************************************)
MinSizes == {-1, 0, 1}
MaxSizes == {0, NumIndividuals}

\* a constructor that checks max_size_of_concept only
AssertedMaxOnly(max, min) == max # 0

\* assert max_size_of_concept; assert min_size_of_concept
Asserted(max, min) == max # 0 /\ min # 0

InitSized ==
    /\ GivenKB
    /\ heap[3].instances = {1, 2}
    /\ min_size_of_concept = 0
    /\ max_size_of_concept = 0
    /\ made = Made("none", 0, 0)
    /\ NoWorkers
    /\ NoLearner
    /\ NoStore
    /\ NoCombos
    /\ NoProduct

\* ConceptGenerator.__init__
ConstructGenerator(max, min) ==
    /\ made.status = "none"
    /\ IF Asserted(max, min)
       THEN /\ made' = Made("constructed", max, min)
            /\ min_size_of_concept' = min
            /\ max_size_of_concept' = max
       ELSE /\ made' = Made("AssertionError", max, min)
            /\ UNCHANGED <<min_size_of_concept, max_size_of_concept>>
    /\ UNCHANGED <<heap, concepts, logs, relations, onto, call, calls,
                   earlier, workers, search, store, combos, cross>>

\* derivations are requested of a constructed generator
Ready == made.status = "constructed" /\ UNCHANGED earlier

NextSized ==
    \/ \E max \in MaxSizes, min \in MinSizes : ConstructGenerator(max, min)
    \/ \E c \in Objects : Ready /\ Negation(c)
    \/ \E c \in Objects, r \in RoleNames :
         Ready /\ ExistentialRestriction(c, r)
    \/ \E c \in Objects, r \in RoleNames :
         Ready /\ UniversalRestriction(c, r)
    \/ \E A \in Objects, B \in Objects : Ready /\ Union(A, B)
    \/ \E A \in Objects, B \in Objects : Ready /\ Intersection(A, B)

SpecSized == InitSized /\ [][NextSized]_vars

(***************************************************************************)
(* Callers racing on one generator: union taken statement by statement.    *)
(* The generator holds no lock, so the callers' steps interleave freely.   *)
(***************************************************************************)
NumWorkers == 2
Workers == 1..NumWorkers

Worker(pc, X, Y, c, ret) == [pc |-> pc, X |-> X, Y |-> Y, c |-> c, ret |-> ret]

\* every caller requests the union of the same two operands
InitRace ==
    /\ GeneratorInit
    /\ NoLearner
    /\ NoUtil
    /\ \E X \in 1..NumInitial, Y \in 1..NumInitial :
         workers = [w \in Workers |-> Worker("start", X, Y, NoObj, NoObj)]

SortedA(w) == ConceptsSorter(workers[w].X, workers[w].Y)[1]
SortedB(w) == ConceptsSorter(workers[w].X, workers[w].Y)[2]

Moved(w, pc, c, ret) ==
    workers' = [workers EXCEPT ![w] = Worker(pc, @.X, @.Y, c, ret)]

\* the sort, the workaround, the memo lookup and the size check
UnionCheck(w) ==
    LET A == SortedA(w)
        B == SortedB(w)
    IN
    /\ workers[w].pc = "start"
    /\ IF UnionWorkaround(A, B) # NoObj
       THEN Moved(w, "done", NoObj, UnionWorkaround(A, B))
       ELSE IF <<A, B>> \in DOMAIN log_of_unions
       THEN Moved(w, "done", NoObj, log_of_unions[<<A, B>>])
       ELSE IF ~InSizeBounds(UnionInstances(A, B))
       THEN Moved(w, "done", NoObj, Bottom)
       ELSE Moved(w, "create", NoObj, NoObj)
    /\ UNCHANGED <<heap, concepts, logs, kb, call, calls, earlier, search,
                   util, onto>>

\* c = Concept(...); c.instances = possible_instances_
UnionCreate(w) ==
    LET A == SortedA(w)
        B == SortedB(w)
    IN
    /\ workers[w].pc = "create"
    /\ heap' = Append(heap, NewConcept(namespace_base_iri,
                                       UnionName(heap[A].str, heap[B].str),
                                       "ObjectUnionOf", A, B, NoRole,
                                       UnionInstances(A, B)))
    /\ onto' = Declared("union", A, heap')
    /\ Moved(w, "log", Len(heap) + 1, NoObj)
    /\ UNCHANGED <<concepts, logs, kb, call, calls, earlier, search, util>>

\* self.log_of_unions[(A, B)] = c
UnionLog(w) ==
    /\ workers[w].pc = "log"
    /\ log_of_unions' = Put(log_of_unions, <<SortedA(w), SortedB(w)>>,
                            workers[w].c)
    /\ Moved(w, "register", workers[w].c, NoObj)
    /\ UNCHANGED <<heap, concepts, log_of_negations, log_of_intersections,
                   log_of_existential_restriction,
                   log_of_universal_restriction, kb, call, calls, earlier,
                   search, util, onto>>

\* self.concepts[c.full_iri] = c
UnionRegister(w) ==
    /\ workers[w].pc = "register"
    /\ concepts' = Put(concepts, heap[workers[w].c].full_iri, workers[w].c)
    /\ Moved(w, "return", workers[w].c, NoObj)
    /\ UNCHANGED <<heap, logs, kb, call, calls, earlier, search, util, onto>>

\* return self.log_of_unions[(A, B)]
UnionReturn(w) ==
    /\ workers[w].pc = "return"
    /\ Moved(w, "done", workers[w].c,
             log_of_unions[<<SortedA(w), SortedB(w)>>])
    /\ UNCHANGED <<heap, concepts, logs, kb, call, calls, earlier, search,
                   util, onto>>

NextRace ==
    \/ \E w \in Workers : UnionCheck(w)
    \/ \E w \in Workers : UnionCreate(w)
    \/ \E w \in Workers : UnionLog(w)
    \/ \E w \in Workers : UnionRegister(w)
    \/ \E w \in Workers : UnionReturn(w)

SpecRace == InitRace /\ [][NextRace]_vars

(***************************************************************************)
(* BaseConceptLearner: construction.                                       *)
(***************************************************************************)
MaxIterBound == 4
MaxTested == 3

None == "None"
\* max_num_of_concepts_tested=None
NoBound == 0
KnowledgeBases == {None, "kb"}
RefinementOperators == {None, "LengthBasedRefinement"}
QualityFuncs == {None, "Accuracy"}
HeuristicFuncs == {None, "DLFOILHeuristic"}
SearchTrees == {None, "SearchTreePriorityQueue"}
RootConcepts == {None, "A"}
IterBounds == 1..MaxIterBound
TestedBounds == {NoBound, MaxTested}

\* the arguments of one construction
Arguments(knowledge_base, refinement_operator, quality_func, heuristic_func, search_tree, terminate_on_goal, iter_bound, max_num_of_concepts_tested, root_concept) ==
    [knowledge_base |-> knowledge_base,
     refinement_operator |-> refinement_operator,
     quality_func |-> quality_func, heuristic_func |-> heuristic_func,
     search_tree |-> search_tree, terminate_on_goal |-> terminate_on_goal,
     iter_bound |-> iter_bound,
     max_num_of_concepts_tested |-> max_num_of_concepts_tested,
     root_concept |-> root_concept]

AllArguments ==
    {Arguments(k, r, q, h, s, g, i, m, c) :
        k \in KnowledgeBases, r \in RefinementOperators, q \in QualityFuncs,
        h \in HeuristicFuncs, s \in SearchTrees, g \in BOOLEAN,
        i \in IterBounds, m \in TestedBounds, c \in RootConcepts}

\* the learner __init__ leaves behind, or the error it raises
Constructed(args, kbase, rho, quality_func, heuristic, search_tree, start_class) ==
    [status |-> "constructed", error |-> None, args |-> args, kb |-> kbase,
     rho |-> rho, quality_func |-> quality_func, heuristic |-> heuristic,
     search_tree |-> search_tree, start_class |-> start_class,
     terminate_on_goal |-> args.terminate_on_goal,
     iter_bound |-> args.iter_bound,
     max_num_of_concepts_tested |-> args.max_num_of_concepts_tested]

Failed(args, error) == [status |-> "failed", error |-> error, args |-> args]

\* a missing collaborator is replaced by the default of its kind
OrDefault(given, default) == IF given = None THEN default ELSE given

\* __init__ without its first assertion: self.kb.thing is then read from None
LearnerInitUnasserted(args) ==
    IF args.knowledge_base = None /\ args.root_concept = None
    THEN Failed(args, "AttributeError")
    ELSE Constructed(args, args.knowledge_base,
                     OrDefault(args.refinement_operator,
                               "ModifiedCELOERefinement"),
                     OrDefault(args.quality_func, "F1"),
                     OrDefault(args.heuristic_func, "CELOEHeuristic"),
                     OrDefault(args.search_tree, "CELOESearchTree"),
                     OrDefault(args.root_concept, "Thing"))

LearnerInit(args) ==
    IF args.knowledge_base = None
    THEN Failed(args, "AssertionError")
    ELSE Constructed(args, args.knowledge_base,
                     OrDefault(args.refinement_operator,
                               "ModifiedCELOERefinement"),
                     OrDefault(args.quality_func, "F1"),
                     OrDefault(args.heuristic_func, "CELOEHeuristic"),
                     OrDefault(args.search_tree, "CELOESearchTree"),
                     OrDefault(args.root_concept, "Thing"))

\* the knowledge base the learners of this model are constructed over
LearnerKB ==
    /\ GeneratorInit
    /\ heap[3].instances = {1, 2}
    /\ min_size_of_concept = 1
    /\ NoWorkers
    /\ NoUtil

InitConstruct == LearnerKB /\ NoLearner

Construct(args) ==
    /\ learner.status = "none"
    /\ learner' = LearnerInit(args)
    /\ concepts_to_nodes' = <<>>
    /\ UNCHANGED <<heap, concepts, logs, kb, call, calls, earlier, workers,
                   util, onto,
                   run, nodes, tree, problem, report, enriched>>

NextConstruct == \E args \in AllArguments : Construct(args)

SpecConstruct == InitConstruct /\ [][NextConstruct]_vars

(***************************************************************************)
(* The concepts a search walks over, their nodes and the search tree.      *)
(***************************************************************************)
Hypothesis(str, length, instances, down) ==
    [str |-> str, length |-> length, instances |-> instances, down |-> down]

\* Thing, three atoms below it, a complement and an intersection; down is
\* the set of downward refinements of each
Hypotheses ==
    << Hypothesis("Thing", 1, Individuals, {2, 3, 4, 5}),
       Hypothesis("A", 1, {1, 2}, {4, 6}),
       Hypothesis("B", 1, {2, 3}, {6}),
       Hypothesis("C", 1, {1}, {}),
       Hypothesis("(not B)", 2, Individuals \ {2, 3}, {}),
       Hypothesis("(A and B)", 3, {2}, {}) >>

Thing == 1
NoNode == 0
Undefined == -1

\* Node(concept, parent_node): depth one below its parent, nothing scored
NewNode(concept, parent_node, depth) ==
    [concept |-> concept, parent_node |-> parent_node, depth |-> depth,
     h_exp |-> 0, refinement_count |-> 0, quality |-> Undefined,
     heuristic |-> Undefined, children |-> <<>>]

\* len(node)
NodeLen(n) == Hypotheses[nodes[n].concept].length

\* F1 of an extension against the examples, in hundredths
F1(instances, lp) ==
    LET tp == Cardinality(instances \cap lp.pos)
        fp == Cardinality(instances \cap lp.neg)
        fn == Cardinality(lp.pos \ instances)
    IN IF tp = 0 THEN 0 ELSE (200 * tp) \div (2 * tp + fp + fn)

\* heuristic.apply(node): quality, less a penalty for each horizontal
\* expansion and each refinement
HExpPenalty == 10
CELOEHeuristic(quality, h_exp, refinement_count) ==
    quality - HExpPenalty * h_exp - refinement_count

\* sorted(items, key, reverse=True): descending and stable
SortedDescending(seq, key) ==
    LET n == Len(seq)
        rank(i) == 1 + Cardinality({j \in 1..n :
                         \/ key[seq[j]] > key[seq[i]]
                         \/ key[seq[j]] = key[seq[i]] /\ j < i})
    IN [p \in 1..n |-> seq[CHOOSE i \in 1..n : rank(i) = p]]

\* the numbers of a set, listed in ascending order
Ascending(S) ==
    [i \in 1..Cardinality(S) |->
       CHOOSE x \in S : Cardinality({y \in S : y <= x}) = i]

InTree(n) == \E i \in 1..Len(tree) : tree[i] = n
ConceptInTree(c) == \E i \in 1..Len(tree) : nodes[tree[i]].concept = c

\* rho.refine(node, maxlength): the downward refinements not longer than
\* maxlength, as concepts
Refine(n, maxlength) ==
    LET found == {c \in Hypotheses[nodes[n].concept].down :
                     Hypotheses[c].length <= maxlength}
    IN Ascending(found)

\* rho.getNode(c, parent_node) over a list of concepts: the node the concept
\* already has in concepts_to_nodes, else a new node below parent_node
GetNodes(cs, parent, ns, mapping) ==
    LET unknown(i) == cs[i] \notin DOMAIN mapping
        \* the nodes created up to and including the i-th concept
        created(i) == Cardinality({k \in 1..i : unknown(k)})
        node(i) == IF unknown(i) THEN Len(ns) + created(i)
                   ELSE mapping[cs[i]]
        new(k) == CHOOSE i \in 1..Len(cs) : unknown(i) /\ created(i) = k
    IN [refinements |-> [i \in 1..Len(cs) |-> node(i)],
        nodes |-> ns \o [k \in 1..created(Len(cs)) |->
                           NewNode(cs[new(k)], parent, ns[parent].depth + 1)],
        mapping |-> [c \in DOMAIN mapping \cup {cs[i] : i \in 1..Len(cs)} |->
                       IF c \in DOMAIN mapping THEN mapping[c]
                       ELSE node(CHOOSE i \in 1..Len(cs) : cs[i] = c)]]

\* search_tree.add_node(ref): a concept the tree already holds is not added;
\* otherwise the node is scored and inserted, and the goal is reported when
\* its quality is 1.0
AddNode(ref) ==
    IF ConceptInTree(nodes[ref].concept)
    THEN [is_added |-> FALSE, goal_found |-> FALSE, nodes |-> nodes,
          tree |-> tree]
    ELSE LET q == F1(Hypotheses[nodes[ref].concept].instances, problem)
             scored == [nodes[ref] EXCEPT
                          !.quality = q,
                          !.heuristic = CELOEHeuristic(
                                            q, nodes[ref].h_exp,
                                            nodes[ref].refinement_count)]
         IN [is_added |-> TRUE, goal_found |-> q = 100,
             nodes |-> [nodes EXCEPT ![ref] = scored],
             tree |-> Append(tree, ref)]

\* next_node_to_expand: the node of the tree with the highest heuristic, the
\* first of them in the order of the tree
NextNodeToExpand ==
    tree[CHOOSE i \in 1..Len(tree) :
            \A j \in 1..Len(tree) :
               \/ nodes[tree[j]].heuristic < nodes[tree[i]].heuristic
               \/ nodes[tree[j]].heuristic = nodes[tree[i]].heuristic /\ i <= j]

(***************************************************************************)
(* The search: predict, apply_rho and updateMinMaxHorizExp.                *)
(***************************************************************************)
maxdepth == 10

\* E+ and E-: disjoint sets of individuals, neither of them empty
LearningProblems ==
    {[pos |-> {1, 2}, neg |-> {3}],
     [pos |-> {1}, neg |-> {2, 3}],
     [pos |-> {2}, neg |-> {1, 3}]}

NoAdd == [ref |-> NoNode, is_added |-> FALSE, goal_found |-> FALSE]

\* a learner constructed as the test constructs it, predict not yet called
InitLearner ==
    /\ LearnerKB
    /\ \E g \in BOOLEAN, i \in IterBounds, m \in TestedBounds :
         learner = LearnerInit(Arguments("kb", "LengthBasedRefinement", "F1",
                                         "CELOEHeuristic",
                                         "SearchTreePriorityQueue", g, i, m,
                                         None))
    /\ run = [phase |-> "Constructed", j |-> 1, node_to_expand |-> NoNode,
              h_exp |-> 0, pending |-> <<>>, min_he |-> 0, max_he |-> 0,
              maxlength |-> 0, expansions |-> 0, tested |-> 0,
              last |-> NoAdd, result |-> None]
    /\ nodes = <<>>
    /\ tree = <<>>
    /\ concepts_to_nodes = <<>>
    /\ problem = [pos |-> {}, neg |-> {}]
    /\ report = [op |-> "none"]
    /\ enriched = {}

\* initialize_root: the node of the start class, scored, alone in the tree
InitializeRoot(lp) ==
    LET q == F1(Hypotheses[Thing].instances, lp)
        root == [NewNode(Thing, NoNode, 0) EXCEPT
                   !.quality = q, !.heuristic = CELOEHeuristic(q, 0, 0)]
    IN [nodes |-> <<root>>, tree |-> <<1>>, mapping |-> Put(<<>>, Thing, 1),
        tested |-> 1]

\* predict without its call of initialize_root: the run starts on an empty
\* tree
SeededNot(lp) ==
    [nodes |-> <<>>, tree |-> <<>>, mapping |-> <<>>, tested |-> 0]

\* self.initialize_root()
Seeded(lp) == InitializeRoot(lp)

\* predict, up to the loop
Predict(lp) ==
    LET root == Seeded(lp) IN
    /\ learner.status = "constructed"
    /\ run.phase = "Constructed"
    /\ problem' = lp
    /\ nodes' = root.nodes
    /\ tree' = root.tree
    /\ concepts_to_nodes' = root.mapping
    /\ run' = [run EXCEPT !.phase = "Initialized", !.tested = root.tested]
    /\ UNCHANGED <<heap, concepts, logs, kb, call, calls, earlier, workers,
                   util, onto,
                   learner, report, enriched>>

\* a loop that runs two steps further than range(1, iter_bound)
InRangeBeyond(j) == j < learner.iter_bound + 2

\* for j in range(1, self.iter_bound)
InRange(j) == j < learner.iter_bound

\* apply_rho with the increment ahead of the refinement
ApplyRhoIncrementFirst(n) ==
    LET maxlength == nodes[n].h_exp + 2
        got == GetNodes(Refine(n, maxlength), n, nodes, concepts_to_nodes)
        count == Len(got.refinements)
    IN [refinements |-> got.refinements, mapping |-> got.mapping,
        maxlength |-> maxlength,
        nodes |-> [got.nodes EXCEPT
                     ![n].h_exp = @ + 1,
                     ![n].refinement_count = count,
                     ![n].heuristic = CELOEHeuristic(nodes[n].quality,
                                                     nodes[n].h_exp + 1,
                                                     count)]]

\* apply_rho(node): refine with maxlength = node.h_exp + 1, then
\* increment_h_exp, refinement_count and heuristic.apply(node)
ApplyRho(n) ==
    LET maxlength == nodes[n].h_exp + 1
        got == GetNodes(Refine(n, maxlength), n, nodes, concepts_to_nodes)
        count == Len(got.refinements)
    IN [refinements |-> got.refinements, mapping |-> got.mapping,
        maxlength |-> maxlength,
        nodes |-> [got.nodes EXCEPT
                     ![n].h_exp = @ + 1,
                     ![n].refinement_count = count,
                     ![n].heuristic = CELOEHeuristic(nodes[n].quality,
                                                     nodes[n].h_exp + 1,
                                                     count)]]

\* node_to_expand = self.next_node_to_expand(j); h_exp = node_to_expand.h_exp;
\* self.apply_rho(node_to_expand)
Expand ==
    LET n == NextNodeToExpand
        out == ApplyRho(n)
    IN
    /\ run.phase \in {"Initialized", "Expanding"}
    /\ run.node_to_expand = NoNode
    /\ InRange(run.j)
    /\ tree # <<>>
    /\ nodes' = out.nodes
    /\ concepts_to_nodes' = out.mapping
    /\ run' = [run EXCEPT !.phase = "Expanding", !.node_to_expand = n,
                          !.h_exp = nodes[n].h_exp,
                          !.pending = out.refinements,
                          !.maxlength = out.maxlength,
                          !.expansions = @ + 1, !.last = NoAdd]
    /\ UNCHANGED <<heap, concepts, logs, kb, call, calls, earlier, workers,
                   util, onto,
                   learner, tree, problem, report, enriched>>

\* a refinement linked below the expanded node whatever add_node answered
LinkedAlways(ns, parent, ref, is_added) ==
    [ns EXCEPT ![parent].children = Append(@, ref)]

\* if is_added: node_to_expand.add_children(ref)
Linked(ns, parent, ref, is_added) ==
    IF is_added THEN [ns EXCEPT ![parent].children = Append(@, ref)] ELSE ns

\* a goal that ends the run whatever terminate_on_goal says
GoalEndsAlways(goal_found) == goal_found

\* if goal_found: ... if self.terminate_on_goal: return True
GoalEnds(goal_found) == goal_found /\ learner.terminate_on_goal

\* one pass of the loop over the refinements
AddRefinement ==
    LET ref == Head(run.pending)
        out == AddNode(ref)
    IN
    /\ run.phase = "Expanding"
    /\ run.pending # <<>>
    /\ IF NodeLen(ref) > run.h_exp /\ nodes[ref].depth < maxdepth
       THEN /\ nodes' = Linked(out.nodes, run.node_to_expand, ref,
                               out.is_added)
            /\ tree' = out.tree
            /\ run' = [run EXCEPT
                         !.phase = IF GoalEnds(out.goal_found)
                                   THEN "GoalFound" ELSE @,
                         !.result = IF GoalEnds(out.goal_found)
                                    THEN "True" ELSE @,
                         !.pending = IF GoalEnds(out.goal_found)
                                     THEN <<>> ELSE Tail(@),
                         !.tested = IF out.is_added THEN @ + 1 ELSE @,
                         !.last = [ref |-> ref, is_added |-> out.is_added,
                                   goal_found |-> out.goal_found]]
       ELSE /\ run' = [run EXCEPT !.pending = Tail(@), !.last = NoAdd]
            /\ UNCHANGED <<nodes, tree>>
    /\ UNCHANGED <<heap, concepts, logs, kb, call, calls, earlier, workers,
                   util, onto,
                   learner, concepts_to_nodes, problem, report, enriched>>

NodeHeuristic == [n \in 1..Len(nodes) |-> nodes[n].heuristic]

\* updateMinMaxHorizExp(node)
UpdateMinMaxHorizExp(n) ==
    LET he == nodes[n].h_exp
        max_he == IF run.max_he > he THEN run.max_he ELSE he
        threshold_score == nodes[n].heuristic + 100 - nodes[n].quality
        sorted_x == SortedDescending(tree, NodeHeuristic)
        Stops(i) == /\ sorted_x[i] # n
                    /\ \/ nodes[sorted_x[i]].h_exp = run.min_he
                       \/ nodes[sorted_x[i]].heuristic < threshold_score
        first == IF \E i \in 1..Len(sorted_x) : Stops(i)
                 THEN CHOOSE i \in 1..Len(sorted_x) :
                        Stops(i) /\ \A k \in 1..(i - 1) : ~Stops(k)
                 ELSE 0
        returns == first # 0 /\ nodes[sorted_x[first]].h_exp = run.min_he
    IN IF run.min_he = he - 1
       THEN [max_he |-> max_he, tree |-> sorted_x,
             min_he |-> IF returns THEN run.min_he ELSE run.min_he + 1]
       ELSE [max_he |-> max_he, tree |-> tree, min_he |-> run.min_he]

\* the bound on the tested concepts, looked at once per pass
TestedEnough ==
    /\ learner.max_num_of_concepts_tested # NoBound
    /\ run.tested >= learner.max_num_of_concepts_tested

\* the end of one pass of the loop
FinishExpansion ==
    LET upd == UpdateMinMaxHorizExp(run.node_to_expand) IN
    /\ run.phase = "Expanding"
    /\ run.node_to_expand # NoNode
    /\ run.pending = <<>>
    /\ tree' = upd.tree
    /\ run' = [run EXCEPT !.min_he = upd.min_he, !.max_he = upd.max_he,
                          !.j = @ + 1, !.node_to_expand = NoNode,
                          !.last = NoAdd,
                          !.phase = IF TestedEnough THEN "Exhausted" ELSE @]
    /\ UNCHANGED <<heap, concepts, logs, kb, call, calls, earlier, workers,
                   util, onto,
                   learner, nodes, concepts_to_nodes, problem, report,
                   enriched>>

\* the loop has run through its range
Exhaust ==
    /\ run.phase \in {"Initialized", "Expanding"}
    /\ run.node_to_expand = NoNode
    /\ ~InRange(run.j)
    /\ run' = [run EXCEPT !.phase = "Exhausted"]
    /\ UNCHANGED <<heap, concepts, logs, kb, call, calls, earlier, workers,
                   util, onto,
                   learner, nodes, tree, concepts_to_nodes, problem, report,
                   enriched>>

\* predict has returned
Terminate ==
    /\ run.phase \in {"GoalFound", "Exhausted"}
    /\ run' = [run EXCEPT !.phase = "Terminated"]
    /\ UNCHANGED <<heap, concepts, logs, kb, call, calls, earlier, workers,
                   util, onto,
                   learner, nodes, tree, concepts_to_nodes, problem, report,
                   enriched>>

NextLearner ==
    \/ \E lp \in LearningProblems : Predict(lp)
    \/ Expand
    \/ AddRefinement
    \/ FinishExpansion
    \/ Exhaust
    \/ Terminate

SpecLearner == InitLearner /\ [][NextLearner]_vars

\* the search thread is never suspended for ever
SpecLearnerFair == SpecLearner /\ WF_vars(NextLearner)

(***************************************************************************)
(* Reporting: show_best_predictions and extend_ontology.                   *)
(***************************************************************************)
MaxTopN == 2
TopNs == 1..MaxTopN
MetricKeys == {"quality", "heuristic", "length"}
Keys == MetricKeys \cup {"accuracy"}
SerializeNames == {None, "predictions.nt"}

\* getattr(node, key)
Attribute(n, key) ==
    CASE key = "quality" -> nodes[n].quality
      [] key = "heuristic" -> nodes[n].heuristic
      [] key = "length" -> NodeLen(n)

\* the nodes of the tree in the order they were inserted
InsertionOrder ==
    Ascending({tree[i] : i \in 1..Len(tree)})

\* the search tree rejects a key it cannot order by before it looks at its
\* nodes
KeyError(key) == key \notin MetricKeys

\* search_tree.show_best_nodes(top_n, key): the first top_n nodes by
\* decreasing key, ties in insertion order
BestNodes(top_n, key) ==
    LET keyed == [n \in 1..Len(nodes) |-> Attribute(n, key)]
        ordered == SortedDescending(InsertionOrder, keyed)
    IN SubSeq(ordered, 1, IF top_n < Len(ordered) THEN top_n ELSE Len(ordered))

\* search_tree.sort_search_tree_by_decreasing_order(key)
SortedTree(key) ==
    LET keyed == [n \in 1..Len(nodes) |-> Attribute(n, key)]
    IN SortedDescending(tree, keyed)

\* the key the learner hands to the search tree, replaced by a default
KeyPassedDefault(key) == "quality"

\* show_best_nodes(top_n, key=key); sort_search_tree_by_decreasing_order(key=key)
KeyPassed(key) == key

\* concept_hiearhy of a predicted node: the node, its parent and so on up to
\* the root; empty when the node has no parent to start from
RECURSIVE Ancestors(_)
Ancestors(n) ==
    IF nodes[n].parent_node = NoNode THEN <<n>>
    ELSE <<n>> \o Ancestors(nodes[n].parent_node)

Hierarchy(pred_node) ==
    IF nodes[pred_node].parent_node = NoNode THEN <<>>
    ELSE <<pred_node>> \o Ancestors(nodes[pred_node].parent_node)

\* the triples g.add puts into the graph for one hierarchy; a node is named
\* by its position in the hierarchy
Triples(h, attribute) ==
    UNION {{<<th - 1, "type", "Class">>,
            <<th - 1, "label", Hypotheses[nodes[h[th]].concept].str>>,
            <<th - 1, attribute, Attribute(h[th], attribute)>>}
           \cup (IF nodes[h[th]].parent_node # NoNode
                 THEN {<<th - 1, "subClassOf", th>>} ELSE {}) :
           th \in 1..Len(h)}

NoReport(op, key, top_n, serialize_name, error) ==
    [op |-> op, key |-> key, top_n |-> top_n,
     serialize_name |-> serialize_name, error |-> error, read |-> FALSE,
     predictions |-> <<>>, graph |-> {}, applied |-> <<>>]

\* the loop over the predictions: it stops with an AttributeError at the
\* first predicted node without a parent
RECURSIVE Serialized(_, _, _)
Serialized(predictions, attribute, g) ==
    IF predictions = <<>> THEN [error |-> None, graph |-> g]
    ELSE IF Hierarchy(Head(predictions)) = <<>>
    THEN [error |-> "AttributeError", graph |-> g]
    ELSE Serialized(Tail(predictions), attribute,
                    g \cup Triples(Hierarchy(Head(predictions)), attribute))

ShowBestPredictions(key, top_n, serialize_name) ==
    LET passed == KeyPassed(key)
        predictions == BestNodes(top_n, passed)
        out == Serialized(predictions, key, {})
    IN
    /\ learner.status = "constructed"
    /\ run.phase = "Terminated"
    /\ report' =
         IF KeyError(passed)
         THEN NoReport("show_best_predictions", key, top_n, serialize_name,
                       "ValueError")
         ELSE IF serialize_name = None
         THEN [NoReport("show_best_predictions", key, top_n, serialize_name,
                        None)
                 EXCEPT !.read = TRUE, !.predictions = predictions]
         ELSE IF key \notin MetricKeys
         THEN [NoReport("show_best_predictions", key, top_n, serialize_name,
                        "ValueError")
                 EXCEPT !.read = TRUE, !.predictions = predictions]
         ELSE [NoReport("show_best_predictions", key, top_n, serialize_name,
                        out.error)
                 EXCEPT !.read = TRUE, !.predictions = predictions,
                        !.graph = out.graph]
    /\ UNCHANGED <<heap, concepts, logs, kb, call, calls, earlier, workers,
                   util, onto,
                   learner, run, nodes, tree, concepts_to_nodes, problem,
                   enriched>>

\* the concepts of the nodes extend_ontology enriches: those at positions
\* 0..top_n_concepts of the sorted tree
Enriched(sorted, top_n_concepts) ==
    {nodes[sorted[i]].concept :
        i \in {k \in 1..Len(sorted) : k - 1 <= top_n_concepts}}

\* the nodes apply_type_enrichment is called for, in the order of the calls
EnrichedNodes(sorted, top_n_concepts) ==
    SubSeq(sorted, 1,
           Cardinality({k \in 1..Len(sorted) : k - 1 <= top_n_concepts}))

ExtendOntology(top_n_concepts, key) ==
    LET passed == KeyPassed(key) IN
    /\ learner.status = "constructed"
    /\ run.phase = "Terminated"
    /\ IF KeyError(passed)
       THEN /\ report' = NoReport("extend_ontology", key, top_n_concepts,
                                  None, "ValueError")
            /\ UNCHANGED <<tree, enriched>>
       ELSE /\ tree' = SortedTree(passed)
            /\ enriched' = enriched
                             \cup Enriched(SortedTree(passed), top_n_concepts)
            /\ report' = [NoReport("extend_ontology", key, top_n_concepts,
                                   None, None)
                            EXCEPT !.read = TRUE,
                                   !.applied = EnrichedNodes(
                                                 SortedTree(passed),
                                                 top_n_concepts)]
    /\ UNCHANGED <<heap, concepts, logs, kb, call, calls, earlier, workers,
                   util, onto,
                   learner, run, nodes, concepts_to_nodes, problem>>

NextReport ==
    \/ \E lp \in LearningProblems : Predict(lp)
    \/ Expand
    \/ AddRefinement
    \/ FinishExpansion
    \/ Exhaust
    \/ Terminate
    \/ \E key \in Keys, top_n \in TopNs, name \in SerializeNames :
         ShowBestPredictions(key, top_n, name)
    \/ \E key \in Keys, top_n \in TopNs : ExtendOntology(top_n, key)

SpecReport == InitLearner /\ [][NextReport]_vars

(***************************************************************************)
(* The triple store: get_results_from_ts and the class hierarchy queries   *)
(* of TripleStoreReasoner.                                                 *)
(***************************************************************************)
MaxRows == 2
MaxPosts == 1

OWLThing == "Thing"
NamedClasses == {OWLThing, "A", "B"}
ComplexClass == "(A and B)"
ClassExpressions == NamedClasses \cup {ComplexClass}

Raised(type, message) == [type |-> type, message |-> message]

\* what requests.post raises when the server cannot be reached: subclasses
\* of RequestException
PostErrors == {Raised("ConnectionError", <<"Connection refused">>),
               Raised("Timeout", <<"timed out">>)}

\* what reading the response raises: a body that is not JSON, or JSON
\* without the keys unwrap reads
JsonErrors == {Raised("JSONDecodeError", <<"Expecting value">>),
               Raised("KeyError", <<"head">>)}

\* the rows of a response: any classes, in any order, repeated or not
Rows == UNION {[1..n -> NamedClasses] : n \in 0..MaxRows}

\* what the backend does with one request
Behaviours ==
    {[post |-> e, json |-> NoError, rows |-> <<>>] : e \in PostErrors}
    \cup {[post |-> NoError, json |-> e, rows |-> <<>>] : e \in JsonErrors}
    \cup {[post |-> NoError, json |-> NoError, rows |-> r] : r \in Rows}

Got(results, error) == [results |-> results, error |-> error]

\* except RequestException as e: raise RequestException(f"Make sure ... {e}")
ServerHint == "Make sure the server is running on the triplestore_address"
Rewrapped(e) == Raised("RequestException", <<ServerHint>> \o e.message)

\* except JSONDecodeError as e: raise JSONDecodeError(f"Something ... {e}"):
\* the exception is built from one argument; a JSONDecodeError that takes
\* (msg, doc, pos) fails in its constructor with TypeError
DecodeHint == "Something went wrong with decoding JSON from the response"
Redecoded(e) ==
    {Raised("JSONDecodeError", <<DecodeHint>> \o e.message),
     Raised("TypeError", <<"missing required positional arguments">>)}

\* get_results_from_ts(triplestore_address, query, return_type): what the
\* caller can get when the backend behaves as b
get_results_from_ts(b) ==
    IF b.post # NoError
    THEN {Got(<<>>, Rewrapped(b.post))}
    ELSE IF b.json.type = "JSONDecodeError"
    THEN {Got(<<>>, e) : e \in Redecoded(b.json)}
    ELSE IF b.json # NoError
    THEN {Got(<<>>, b.json)}
    ELSE {Got(b.rows, NoError)}

\* response = requests.post(triplestore_address, data={'query': query})
Query(pattern, ce, direct) ==
    [pattern |-> pattern, ce |-> ce, direct |-> direct]

Post(query, b) ==
    /\ Len(posts) < MaxPosts
    /\ posts' = Append(posts, query)
    /\ backend' = b

Replied(op, ce, direct, only_named, got) ==
    /\ reply' = [op |-> op, ce |-> ce, direct |-> direct,
                 only_named |-> only_named,
                 posted |-> Len(posts') - Len(posts),
                 results |-> got.results, error |-> got.error]
    /\ UNCHANGED <<heap, concepts, logs, kb, call, calls, earlier, workers,
                   search, combos, made, cross, onto>>

\* results.remove(ce): the first occurrence is taken out
RECURSIVE Remove(_, _)
Remove(results, ce) ==
    IF results = <<>> THEN <<>>
    ELSE IF Head(results) = ce THEN Tail(results)
    ELSE <<Head(results)>> \o Remove(Tail(results), ce)

Contains(results, ce) == \E k \in 1..Len(results) : results[k] = ce

NotImplemented == Raised("NotImplementedError", <<"not implemented">>)

\* TripleStoreOntology.classes_in_signature: the results as they come
ClassesInSignature ==
    \E b \in Behaviours :
      /\ Post(Query("?x a owl:Class", "None", FALSE), b)
      /\ \E got \in get_results_from_ts(b) :
           Replied("classes_in_signature", "None", FALSE, TRUE, got)

\* the result list of sub_classes after the query
SubResults(ce, results) ==
    IF Contains(results, ce) THEN Remove(results, ce) ELSE results

\* TripleStoreReasoner.sub_classes(ce, direct, only_named)
SubClasses(ce, direct, only_named) ==
    IF ~only_named \/ ce \notin NamedClasses
    THEN /\ UNCHANGED <<backend, posts>>
         /\ Replied("sub_classes", ce, direct, only_named,
                    Got(<<>>, NotImplemented))
    ELSE \E b \in Behaviours :
           /\ Post(Query("?x rdfs:subClassOf", ce, direct), b)
           /\ \E got \in get_results_from_ts(b) :
                Replied("sub_classes", ce, direct, only_named,
                        IF got.error # NoError THEN got
                        ELSE Got(SubResults(ce, got.results), NoError))

\* the result list of super_classes after the query
SuperResults(ce, direct, results) ==
    LET removed == IF Contains(results, ce) THEN Remove(results, ce)
                   ELSE results
    IN IF (~direct /\ ~Contains(removed, OWLThing)) \/ Len(removed) = 0
       THEN Append(removed, OWLThing)
       ELSE removed

\* TripleStoreReasoner.super_classes(ce, direct, only_named)
SuperClasses(ce, direct, only_named) ==
    IF ~only_named \/ ce \notin NamedClasses
    THEN /\ UNCHANGED <<backend, posts>>
         /\ Replied("super_classes", ce, direct, only_named,
                    Got(<<>>, NotImplemented))
    ELSE IF ce = OWLThing
    THEN /\ UNCHANGED <<backend, posts>>
         /\ Replied("super_classes", ce, direct, only_named,
                    Got(<<>>, NoError))
    ELSE \E b \in Behaviours :
           /\ Post(Query("rdfs:subClassOf ?x", ce, direct), b)
           /\ \E got \in get_results_from_ts(b) :
                Replied("super_classes", ce, direct, only_named,
                        IF got.error # NoError THEN got
                        ELSE Got(SuperResults(ce, direct, got.results),
                                 NoError))

InitStore == LearnerKB /\ NoLearner

NextStore ==
    \/ ClassesInSignature
    \/ \E ce \in ClassExpressions, direct \in BOOLEAN,
            only_named \in BOOLEAN :
         SubClasses(ce, direct, only_named)
    \/ \E ce \in ClassExpressions, direct \in BOOLEAN,
            only_named \in BOOLEAN :
         SuperClasses(ce, direct, only_named)

SpecStore == InitStore /\ [][NextStore]_vars

(***************************************************************************)
(* getCombos and decompose: the length combinations of a refinement.       *)
(* A Python list is an object: `lists` is the heap of the lists made       *)
(* during a call, a frame and combosTmp hold references into it.           *)
(***************************************************************************)
MaxLength == 5

Lengths == 0..MaxLength

Min(a, b) == IF a < b THEN a ELSE b

\* a call decompose(number, upperlimit, bisher, combosTmp) at the head of
\* its loop: i = min(number, upperlimit)
Frame(number, upperlimit, bisher, i) ==
    [number |-> number, upperlimit |-> upperlimit, bisher |-> bisher, i |-> i]

Top == frames[Len(frames)]

\* the lists after the first part of the loop body, and the list newbisher
\* refers to
NewBisher(ls, ref) == [lists |-> ls, newbisher |-> ref]

\* newbisher = bisher; newbisher.append(i): the caller's list itself
Aliased(bisher, i) ==
    NewBisher(Append([lists EXCEPT ![bisher] = Append(@, i)], <<>>), bisher)

\* a copy that is the list itself: i is appended to the caller's list
CopiedInPlace(bisher, i) ==
    NewBisher(Append([lists EXCEPT ![bisher] = Append(@, i)], <<>>), bisher)

\* newbisher = copy.copy(bisher); newbisher.append(i)
Copied(bisher, i) ==
    NewBisher(Append(lists, Append(lists[bisher], i)), Len(lists) + 1)

\* newbisher = list(), then the if / elif on i and number - i
Extended(f) ==
    IF f.i = 0 THEN Aliased(f.bisher, f.i)
    ELSE IF f.number - f.i # 1 THEN Copied(f.bisher, f.i)
    ELSE NewBisher(Append(lists, <<>>), Len(lists) + 1)

\* a recursive call that hands on the whole budget
RemainingSame(number, i) == number

\* the budget of the recursive call: decompose(number - i - 1, i, ...)
Remaining(number, i) == number - i - 1

CombosFrame ==
    UNCHANGED <<heap, concepts, logs, kb, call, calls, earlier, workers,
                search, store, made, cross, onto>>

\* getCombos(length, max_length) up to the first loop test of decompose
GetCombos(length, max_length) ==
    /\ combo.phase = "idle"
    /\ combo' = [phase |-> "decompose", length |-> length,
                 max_length |-> max_length, result |-> <<>>]
    /\ combosTmp' = <<>>
    /\ lists' = << <<>> >>
    /\ frames' = <<Frame(length, max_length, 1, Min(length, max_length))>>
    /\ CombosFrame

\* one pass of the loop body that calls decompose again
Descend ==
    LET f == Top
        e == Extended(f)
        number == Remaining(f.number, f.i)
    IN
    /\ combo.phase = "decompose"
    /\ f.i >= 1
    /\ f.number - f.i > 1
    /\ lists' = e.lists
    /\ frames' = Append(frames, Frame(number, f.i, e.newbisher,
                                      Min(number, f.i)))
    /\ UNCHANGED <<combosTmp, combo>>
    /\ CombosFrame

\* one pass of the loop body without a call, and i -= 1
Iterate ==
    LET f == Top
        e == Extended(f)
    IN
    /\ combo.phase = "decompose"
    /\ f.i >= 1
    /\ ~(f.number - f.i > 1)
    /\ lists' = e.lists
    /\ combosTmp' = IF f.number - f.i = 0
                    THEN Append(combosTmp, e.newbisher)
                    ELSE combosTmp
    /\ frames' = [frames EXCEPT ![Len(frames)].i = @ - 1]
    /\ UNCHANGED combo
    /\ CombosFrame

\* the loop of the called decompose ends; its caller goes on with i -= 1
Return ==
    /\ combo.phase = "decompose"
    /\ Len(frames) > 1
    /\ Top.i < 1
    /\ frames' = [SubSeq(frames, 1, Len(frames) - 1)
                    EXCEPT ![Len(frames) - 1].i = @ - 1]
    /\ UNCHANGED <<lists, combosTmp, combo>>
    /\ CombosFrame

\* the loop of the first decompose ends: return combosTmp
ReturnCombos ==
    /\ combo.phase = "decompose"
    /\ Len(frames) = 1
    /\ Top.i < 1
    /\ frames' = <<>>
    /\ combo' = [combo EXCEPT !.phase = "returned",
                              !.result = [k \in 1..Len(combosTmp) |->
                                            lists[combosTmp[k]]]]
    /\ UNCHANGED <<lists, combosTmp>>
    /\ CombosFrame

InitCombos == LearnerKB /\ NoLearner

NextCombos ==
    \/ \E length \in Lengths, max_length \in Lengths :
         GetCombos(length, max_length)
    \/ Descend
    \/ Iterate
    \/ Return
    \/ ReturnCombos

SpecCombos == InitCombos /\ [][NextCombos]_vars

\* a call that has started is run to its end
SpecCombosFair == SpecCombos /\ WF_vars(NextCombos)

(***************************************************************************)
(* incCrossProduct: the unions of the concepts of two sets.  A Python set  *)
(* is an object: `sets` is the heap of the sets of a call, the arguments   *)
(* and retset are references into it.                                      *)
(***************************************************************************)
MaxSetSize == 2

\* the sets of concepts a caller passes
ConceptSets == {S \in SUBSET (1..NumInitial) : Cardinality(S) <= MaxSetSize}

\* the orders in which a loop may iterate over a set
Orders(S) ==
    {o \in [1..Cardinality(S) -> S] :
       \A x \in 1..Cardinality(S), y \in 1..Cardinality(S) :
          o[x] = o[y] => x = y}

\* a test that never takes the shortcut for an empty baseset
BaseEmptyNever(baseset) == FALSE

\* if len(baseset) == 0
BaseEmpty(baseset) == Cardinality(baseset) = 0

ProductFrame ==
    UNCHANGED <<workers, search, store, combos, made>>

\* incCrossProduct(baseset, newset, exp_gen) up to its loops; `same` when
\* the caller passes one set object for both arguments
IncCrossProduct(baseset, newset, same) ==
    LET b == 1
        n == IF same THEN 1 ELSE 2
        r == n + 1
        given == IF same THEN <<baseset>> ELSE <<baseset, newset>>
    IN
    /\ product.phase = "idle"
    /\ same => baseset = newset
    /\ IF BaseEmpty(baseset)
       THEN /\ sets' = Append(given, given[n])
            /\ product' = [product EXCEPT !.phase = "returned",
                                          !.baseset = b, !.newset = n,
                                          !.retset = r]
       ELSE /\ sets' = Append(given, {})
            /\ \E is \in Orders(baseset), js \in Orders(newset) :
                 product' = [phase |-> "loop", baseset |-> b, newset |-> n,
                             retset |-> r, is |-> is, js |-> js,
                             i |-> 1, j |-> 1]
    /\ UNCHANGED <<heap, concepts, logs, kb, onto, call, calls, earlier>>
    /\ ProductFrame

\* retset.add(exp_gen.union(i, j)) for the next pair of the two loops
UnionPair ==
    LET i == product.is[product.i]
        j == product.js[product.j]
        out == union(i, j)
        last == product.j = Len(product.js)
    IN
    /\ product.phase = "loop"
    /\ product.i <= Len(product.is)
    /\ product.j <= Len(product.js)
    /\ heap' = out.objs
    /\ concepts' = out.reg
    /\ log_of_unions' = out.log
    /\ onto' = Declared("union", i, out.objs)
    /\ call' = Request("union", i, j, NoRole, out)
    /\ calls' = calls + 1
    /\ sets' = [sets EXCEPT ![product.retset] = @ \cup {out.ret}]
    /\ product' = [product EXCEPT !.i = IF last THEN @ + 1 ELSE @,
                                  !.j = IF last THEN 1 ELSE @ + 1]
    /\ UNCHANGED <<log_of_intersections, log_of_negations,
                   log_of_existential_restriction,
                   log_of_universal_restriction, kb, earlier>>
    /\ ProductFrame

\* the loops have ended: return retset
ReturnProduct ==
    /\ product.phase = "loop"
    /\ product.i > Len(product.is) \/ Len(product.js) = 0
    /\ product' = [product EXCEPT !.phase = "returned"]
    /\ UNCHANGED <<heap, concepts, logs, kb, onto, call, calls, earlier,
                   sets>>
    /\ ProductFrame

InitProduct ==
    /\ GeneratorInit
    /\ heap[3].instances = {1, 2}
    /\ NoWorkers
    /\ NoLearner
    /\ NoUtil

NextProduct ==
    \/ \E baseset \in ConceptSets, newset \in ConceptSets, same \in BOOLEAN :
         IncCrossProduct(baseset, newset, same)
    \/ UnionPair
    \/ ReturnProduct

SpecProduct == InitProduct /\ [][NextProduct]_vars

(***************************************************************************)
(* Properties of ConceptGenerator.                                         *)
(***************************************************************************)
Derived(c) == c > NumInitial
Generator == <<heap, concepts, logs>>
Inst(c) == heap[c].instances

SameRequest(q, e) ==
    /\ e.op # "none"
    /\ q.op = e.op /\ q.a = e.a /\ q.b = e.b /\ q.role = e.role

SwappedRequest(q, e) ==
    /\ e.op \in {"union", "intersection"}
    /\ q.op = e.op /\ q.a = e.b /\ q.b = e.a

CommutativeMemo ==
    [][SwappedRequest(call', earlier) =>
         /\ call'.ret = earlier.ret
         /\ heap' = heap]_vars

CommutativeWitness ==
    /\ SwappedRequest(call, earlier)
    /\ calls >= 2
    /\ call.a # call.b
    /\ ConceptLen(call.a) = ConceptLen(call.b)
    /\ Derived(call.ret)

\* C3: no derivation returns a derived concept, other than Bottom, whose
\* extension size lies outside [min_size_of_concept, max_size_of_concept].
SizeBoundsOfDerived ==
    (call.op # "none" /\ Derived(call.ret)) => InSizeBounds(Inst(call.ret))

\* C4: unless the result is Bottom, negation yields the universe minus the
\* operand's extension, union the set union and intersection the set
\* intersection of the operands' extensions.
BooleanExtensions ==
    call.ret # Bottom =>
      /\ call.op = "negation" => Inst(call.ret) = Inst(T) \ Inst(call.a)
      /\ call.op = "union" => Inst(call.ret) = Inst(call.a) \cup Inst(call.b)
      /\ call.op = "intersection" =>
           Inst(call.ret) = Inst(call.a) \cap Inst(call.b)

BooleanExtensionsWitness ==
    /\ call.op = "union"
    /\ Derived(call.ret)
    /\ Inst(call.ret) # Inst(call.a)
    /\ Inst(call.ret) # Inst(call.b)

Successors(x, role) == {p[2] : p \in {q \in relations[role] : q[1] = x}}

\* C5: the extension of universal_restriction(C, R) is the set of the
\* individuals all of whose R-successors lie in C's extension.
UniversalExtension ==
    (call.op = "universal_restriction" /\ call.ret # Bottom) =>
      Inst(call.ret)
        = {x \in Individuals : Successors(x, call.role) \subseteq Inst(call.a)}

\* C6: the extension of existential_restriction(C, R) is the set of the
\* subjects having some R-successor in C's extension.
ExistentialExtension ==
    (call.op = "existential_restriction" /\ call.ret # Bottom) =>
      Inst(call.ret)
        = {x \in Individuals : Successors(x, call.role) \cap Inst(call.a) # {}}

ExistentialWitness ==
    /\ call.op = "existential_restriction"
    /\ Derived(call.ret)
    /\ Inst(call.ret) # {}
    /\ Inst(call.ret) # Inst(call.a)
    /\ Inst(call.ret) # Inst(T)

\* C7: the negation of the negation of C is C itself, for C other than Top
\* and Bottom with a non-empty extension within the size bounds.
DoubleNegation ==
    (/\ call.op = "negation"
     /\ heap[call.a].form = "ObjectComplementOf"
     /\ heap[call.a].a \notin {T, Bottom}
     /\ Inst(heap[call.a].a) # {}
     /\ InSizeBounds(Inst(heap[call.a].a)))
    => call.ret = heap[call.a].a

\* C8: negation(Top) returns Bottom and negation(Bottom) returns Top, in
\* any state of the generator, and neither creates a concept.
NegationOfTopAndBottom ==
    [][(calls' # calls /\ call'.op = "negation" /\ call'.a \in {T, Bottom}) =>
         /\ call'.ret = (IF call'.a = T THEN Bottom ELSE T)
         /\ heap' = heap]_vars

\* C9: union with Bottom returns the other operand and intersection with
\* Bottom returns Bottom, whatever the size bounds and the extension sizes.
BottomShortcuts ==
    /\ (call.op = "union" /\ call.a = Bottom) => call.ret = call.b
    /\ (call.op = "union" /\ call.b = Bottom) => call.ret = call.a
    /\ (call.op = "intersection" /\ Bottom \in {call.a, call.b})
         => call.ret = Bottom

BottomShortcutsWitness ==
    /\ call.op = "union"
    /\ call.a = Bottom
    /\ Derived(call.b)
    /\ ~InSizeBounds(Inst(call.b))
    /\ call.ret = call.b

\* C10: a derivation that collapses because of the size bounds returns
\* Bottom and leaves the registry and the five memo tables unchanged.
CollapseCreatesNothing ==
    [][(calls' # calls /\ call'.collapsed) =>
         /\ call'.ret = Bottom
         /\ UNCHANGED Generator]_vars

CollapseWitness ==
    /\ call.collapsed
    /\ call.op = "union"
    /\ Cardinality(Inst(call.a) \cup Inst(call.b)) > max_size_of_concept

\* the memo table a derived concept was created into, and its key there
MemoTableOf(c) ==
    CASE heap[c].form = "ObjectComplementOf" -> log_of_negations
      [] heap[c].form = "ObjectUnionOf" -> log_of_unions
      [] heap[c].form = "ObjectIntersectionOf" -> log_of_intersections
      [] heap[c].form = "ObjectSomeValuesFrom" -> log_of_existential_restriction
      [] heap[c].form = "ObjectAllValuesFrom" -> log_of_universal_restriction

MemoKeyOf(c) ==
    CASE heap[c].form = "ObjectComplementOf" -> ObjKey(heap[c].a)
      [] heap[c].form \in {"ObjectUnionOf", "ObjectIntersectionOf"} ->
           ConceptsSorter(heap[c].a, heap[c].b)
      [] OTHER -> <<heap[c].a, heap[c].role>>

\* C11: every concept created by a derivation is stored in the registry
\* under its full_iri and in the memo table of the creating operation under
\* that operation's key (the operand for negation, the canonically ordered
\* pair for union and intersection, filler and role for the restrictions),
\* and no step removes or rebinds an entry of the registry.
CreatedAreRegistered ==
    /\ [](\A c \in Objects : Derived(c) =>
            /\ heap[c].full_iri \in DOMAIN concepts
            /\ concepts[heap[c].full_iri] = c
            /\ MemoKeyOf(c) \in DOMAIN MemoTableOf(c)
            /\ MemoTableOf(c)[MemoKeyOf(c)] = c)
    /\ [][\A i \in DOMAIN concepts :
            i \in DOMAIN concepts' /\ concepts'[i] = concepts[i]]_vars

CreatedAreRegisteredWitness ==
    /\ call.op = "intersection"
    /\ Derived(call.ret)
    /\ call.ret = Len(heap)
    /\ Derived(call.a)
    /\ heap[call.a].form = "ObjectSomeValuesFrom"
    /\ Cardinality(DOMAIN concepts) = NumInitial + MaxCalls

\* two objects of the heap with the same definition
SameDefinition(c, d) ==
    /\ heap[c].form = heap[d].form
    /\ heap[c].a = heap[d].a
    /\ heap[c].b = heap[d].b
    /\ heap[c].role = heap[d].role

\* C12: when several callers request the union of the same operands at the
\* same time, at most one concept is created for it and every caller that
\* has returned holds the same object: no interleaving leaves two concepts
\* with the same definition and different identities.
OneCanonicalInstance ==
    /\ \A c \in Objects, d \in Objects :
         (Derived(c) /\ Derived(d) /\ SameDefinition(c, d)) => c = d
    /\ \A v \in DOMAIN workers, w \in DOMAIN workers :
         (workers[v].pc = "done" /\ workers[w].pc = "done")
           => workers[v].ret = workers[w].ret

(***************************************************************************)
(* Properties of the learner.                                              *)
(***************************************************************************)
MissingCollaborator(args) ==
    None \in {args.knowledge_base, args.quality_func, args.heuristic_func,
              args.refinement_operator, args.root_concept}

\* C19 as stated: constructing a learner with any required collaborator
\* missing (knowledge base, quality function, heuristic, refinement operator
\* or root concept) fails at construction.
MissingCollaboratorFails ==
    (learner.status # "none" /\ MissingCollaborator(learner.args))
      => learner.status = "failed"

\* C19: construction fails when the knowledge base is missing; a missing
\* refinement operator, quality function, heuristic, search tree or root
\* concept is replaced by its default, so that no constructed learner has a
\* collaborator missing.
MissingCollaboratorDefaulted ==
    learner.status # "none" =>
      /\ learner.args.knowledge_base = None <=> learner.status = "failed"
      /\ learner.status = "constructed" =>
           /\ learner.kb = learner.args.knowledge_base
           /\ learner.rho = OrDefault(learner.args.refinement_operator,
                                      "ModifiedCELOERefinement")
           /\ learner.quality_func = OrDefault(learner.args.quality_func, "F1")
           /\ learner.heuristic = OrDefault(learner.args.heuristic_func,
                                            "CELOEHeuristic")
           /\ learner.search_tree = OrDefault(learner.args.search_tree,
                                              "CELOESearchTree")
           /\ learner.start_class = OrDefault(learner.args.root_concept,
                                              "Thing")
           /\ None \notin {learner.kb, learner.rho, learner.quality_func,
                            learner.heuristic, learner.search_tree,
                            learner.start_class}

MissingCollaboratorWitness ==
    /\ learner.status = "constructed"
    /\ learner.args.quality_func = None
    /\ learner.args.root_concept = None
    /\ learner.quality_func = "F1"
    /\ learner.start_class = "Thing"

Terminal == run.phase \in {"GoalFound", "Exhausted", "Terminated"}

\* a step of the loop that handed a refinement to add_node
Offered == run.phase = "Expanding" /\ run.pending # <<>>
              /\ run'.last.ref # NoNode

\* C13: the tree holds at most one node for each concept; a refinement
\* whose concept already has a node in the tree is reported as not added,
\* the node in the tree stays as it is, and nothing is linked below the
\* expanded node.
TreeUniqueness ==
    /\ [](\A i \in 1..Len(tree), k \in 1..Len(tree) :
            nodes[tree[i]].concept = nodes[tree[k]].concept => i = k)
    /\ [][Offered =>
            /\ run'.last.is_added
                 <=> ~ConceptInTree(nodes[run'.last.ref].concept)
            /\ ~run'.last.is_added => (tree' = tree /\ nodes' = nodes)
            /\ run'.last.is_added =>
                 /\ tree' = Append(tree, run'.last.ref)
                 /\ nodes'[run.node_to_expand].children
                      = Append(nodes[run.node_to_expand].children,
                               run'.last.ref)]_vars

TreeUniquenessWitness ==
    /\ run.phase = "Expanding"
    /\ run.last.ref # NoNode
    /\ ~run.last.is_added
    /\ InTree(run.last.ref)
    /\ run.last.ref # run.node_to_expand
    /\ Len(tree) >= 4

\* a step that inserts a node of quality 1.0 into the tree
GoalInserted ==
    /\ Len(tree') = Len(tree) + 1
    /\ nodes'[tree'[Len(tree')]].quality = 100

Termination ==
    /\ <>(run.phase = "Terminated")
    /\ [](run.expansions <= learner.iter_bound)
    /\ [][(run'.phase = "Terminated" /\ run.phase # "Terminated") =>
            run.phase \in {"GoalFound", "Exhausted", "RuntimeExceeded"}]_vars
    /\ [][Terminal => (run'.phase \in {run.phase, "Terminated"})]_vars
    /\ [][run.phase = "Terminated" => run'.phase = "Terminated"]_vars

TerminationWitness ==
    /\ run.phase = "Terminated"
    /\ run.result = None
    /\ run.expansions = learner.iter_bound - 1
    /\ run.expansions >= 2

\* C17: the h_exp of a node never decreases: an expansion refines its node
\* with maxlength = h_exp + 1 and then raises the h_exp of that node by one,
\* and no other step changes the h_exp of any node.
HExpMonotone ==
    [][/\ \A n \in 1..Len(nodes) : nodes'[n].h_exp >= nodes[n].h_exp
       /\ IF run'.expansions # run.expansions
          THEN /\ run'.maxlength = nodes[run'.node_to_expand].h_exp + 1
               /\ nodes'[run'.node_to_expand].h_exp
                    = nodes[run'.node_to_expand].h_exp + 1
               /\ \A n \in 1..Len(nodes) :
                    n # run'.node_to_expand
                      => nodes'[n].h_exp = nodes[n].h_exp
          ELSE \A n \in 1..Len(nodes) : nodes'[n].h_exp = nodes[n].h_exp]_vars

HExpMonotoneWitness ==
    \E n \in 1..Len(nodes), m \in 1..Len(nodes) :
       /\ nodes[n].h_exp = 2
       /\ nodes[m].h_exp = 1
       /\ run.maxlength = 2
       /\ run.node_to_expand = n

\* C16: in every terminal state of a run the tree holds at least the root,
\* so the best hypotheses taken from it are a non-empty list, whether the
\* run ended on a goal, on the iteration bound or on the bound of tested
\* concepts.
NonEmptyPredictions ==
    Terminal =>
      /\ tree # <<>>
      /\ \E i \in 1..Len(tree) : nodes[tree[i]].parent_node = NoNode
      /\ \A n \in TopNs, key \in MetricKeys : Len(BestNodes(n, key)) > 0

NonEmptyPredictionsWitness ==
    /\ run.phase = "Terminated"
    /\ learner.max_num_of_concepts_tested = MaxTested
    /\ run.tested >= MaxTested
    /\ InRange(run.j)
    /\ Len(BestNodes(MaxTopN, "quality")) = MaxTopN

Failing(b) == b.post # NoError \/ b.json # NoError

\* the error the collaborator raised
CollaboratorError(b) == IF b.post # NoError THEN b.post ELSE b.json

\* C21: when the backend cannot be reached or fails, the caller gets the
\* very error the collaborator raised, the query was sent exactly once, and
\* the failure is never turned into a result.
FailureReachesCallerUnmodified ==
    reply.posted > 0 =>
      /\ reply.posted = 1
      /\ Failing(backend) =>
           /\ reply.error = CollaboratorError(backend)
           /\ reply.error # NoError

Occurrences(results, ce) ==
    Cardinality({k \in 1..Len(results) : results[k] = ce})

\* C30: for a named class ce and any response of the backend, repeated rows
\* included: sub_classes and super_classes never yield ce itself;
\* super_classes(ce, direct=False), ce not Thing, yields Thing exactly once
\* when the backend did not return it; super_classes(ce) yields Thing when
\* the backend returned no class other than ce; super_classes(Thing) yields
\* nothing.
HierarchyAnswers ==
    (reply.op \in {"sub_classes", "super_classes"} /\ reply.error = NoError) =>
      /\ ~Contains(reply.results, reply.ce)
      /\ (reply.op = "super_classes" /\ reply.posted = 1) =>
           /\ (~reply.direct /\ ~Contains(backend.rows, OWLThing)) =>
                Occurrences(reply.results, OWLThing) = 1
           /\ (\A k \in 1..Len(backend.rows) : backend.rows[k] = reply.ce) =>
                Contains(reply.results, OWLThing)
      /\ (reply.op = "super_classes" /\ reply.ce = OWLThing) =>
           reply.results = <<>>

(***************************************************************************)
(* Properties of getCombos.                                                *)
(***************************************************************************)
\* a call of decompose hands a smaller budget to the call it makes, and a
\* pass of the loop leaves a smaller i, never below 0
BudgetShrinks ==
    /\ Len(frames') = Len(frames) + 1 /\ Len(frames) >= 1 =>
         /\ frames'[Len(frames')].number < Top.number
         /\ frames'[Len(frames')].number >= 0
    /\ Len(frames') = Len(frames) /\ Len(frames) >= 1 =>
         /\ frames'[Len(frames)].i < Top.i
         /\ frames'[Len(frames)].i >= 0
    /\ Len(frames') = Len(frames) - 1 /\ Len(frames') >= 1 =>
         /\ frames'[Len(frames')].i < frames[Len(frames')].i
         /\ frames'[Len(frames')].i >= 0

\* C24: for all non-negative length and max_length, getCombos(length,
\* max_length) returns after finitely many steps: every recursive call of
\* decompose gets a strictly smaller budget and every pass of a loop
\* strictly decreases i, down to 0.
EnumerationTerminates ==
    /\ [][BudgetShrinks]_vars
    /\ <>(combo.phase = "returned")

\* a call that recursed, looped and returned
EnumerationTerminatesWitness ==
    /\ combo.phase = "returned"
    /\ combo.length = MaxLength
    /\ combo.max_length >= 2
    /\ \E k \in 1..Len(lists) : Len(lists[k]) >= 2

RECURSIVE Sum(_)
Sum(s) == IF s = <<>> THEN 0 ELSE Head(s) + Sum(Tail(s))

NonIncreasing(s) == \A k \in 1..(Len(s) - 1) : s[k] >= s[k + 1]

\* the non-increasing sequences of parts in 1..max_length whose sum plus
\* the number of parts less one is length; such a sequence has at most
\* (length + 1) / 2 parts
Partitions(length, max_length) ==
    {s \in UNION {[1..k -> 1..max_length] : k \in 1..((length + 1) \div 2)} :
       NonIncreasing(s) /\ Sum(s) + Len(s) - 1 = length}

CombosExact ==
    combo.phase = "returned" =>
      /\ (combo.length >= 1 /\ combo.max_length >= 1) =>
           /\ {combo.result[k] : k \in 1..Len(combo.result)}
                = Partitions(combo.length, combo.max_length)
           /\ \A j \in 1..Len(combo.result), k \in 1..Len(combo.result) :
                j # k => combo.result[j] # combo.result[k]
           /\ \A k \in 1..Len(combo.result) : combo.result[k] # <<>>
      /\ combo.length = 0 => combo.result = <<>>

\* no step changes the list a frame of decompose was given as bisher
BisherKept ==
    \A k \in 1..Len(frames) :
      lists'[frames[k].bisher] = lists[frames[k].bisher]

\* C26: for length >= 1 and max_length >= 1, getCombos returns exactly the
\* non-increasing sequences over 1..max_length whose sum plus the number of
\* parts less one is length, each once and no other list, the empty list
\* never; getCombos(0, max_length) returns the empty list; decompose never
\* mutates the list bisher its caller passed.
CombosOfLength ==
    /\ []CombosExact
    /\ [][BisherKept]_vars

\* a call that returned several combinations, one of them of several parts
CombosOfLengthWitness ==
    /\ combo.phase = "returned"
    /\ Len(combo.result) >= 3
    /\ \E k \in 1..Len(combo.result) : Len(combo.result[k]) >= 2
    /\ combo.max_length < combo.length

(***************************************************************************)
(* Properties of the horizontal-expansion bookkeeping.                     *)
(***************************************************************************)
\* an expansion step has ended with updateMinMaxHorizExp
StepDone ==
    /\ run.phase \in {"Expanding", "Exhausted", "Terminated"}
    /\ run.node_to_expand = NoNode
    /\ run.expansions > 0

\* the largest h_exp of a node: a node has h_exp above 0 once expanded
LargestHExp ==
    CHOOSE m \in 0..MaxIterBound :
      /\ \E n \in 1..Len(nodes) : nodes[n].h_exp = m
      /\ \A n \in 1..Len(nodes) : nodes[n].h_exp <= m

\* min_he and max_he never decrease, and min_he is raised by one and only
\* when no other node of the tree has h_exp equal to min_he
BoundsRaised ==
    (run.phase # "none" /\ run.expansions > 0) =>
      /\ run'.max_he >= run.max_he
      /\ run'.min_he >= run.min_he
      /\ run'.min_he # run.min_he =>
           /\ run'.min_he = run.min_he + 1
           /\ \A i \in 1..Len(tree) :
                tree[i] # run.node_to_expand =>
                  nodes[tree[i]].h_exp # run.min_he

BoundsConsistent ==
    StepDone =>
      /\ run.min_he <= run.max_he
      /\ run.max_he = LargestHExp
      /\ \A i \in 1..Len(tree) : run.min_he <= nodes[tree[i]].h_exp

\* C25: after every expansion step min_he <= max_he, neither ever
\* decreases, max_he is the largest h_exp of any node expanded so far, and
\* min_he is raised by one only when no other node of the tree still has
\* h_exp equal to min_he, so that min_he never exceeds the h_exp of a node
\* in the tree.
HorizExpBookkeeping ==
    /\ []BoundsConsistent
    /\ [][BoundsRaised]_vars

(***************************************************************************)
(* Properties of the reports.                                              *)
(***************************************************************************)
TreeNodes == {tree[i] : i \in 1..Len(tree)}

\* the tree is ordered by decreasing key
Decreasing(key) ==
    \A i \in 1..(Len(tree) - 1) :
      Attribute(tree[i], key) >= Attribute(tree[i + 1], key)

\* the enrichment went to the first N nodes of the tree in decreasing order
\* of key, to all of them when the tree has fewer, and to no other node
TopNEnriched ==
    (report.op = "extend_ontology" /\ report.error = None) =>
      /\ Decreasing(report.key)
      /\ report.applied =
           SubSeq(tree, 1, Min(report.top_n, Len(tree)))

\* a report neither adds a node to the tree nor removes one
TreeKept ==
    (run.phase = "Terminated" /\ run'.phase = "Terminated") =>
      /\ {tree'[i] : i \in 1..Len(tree')} = TreeNodes
      /\ Len(tree') = Len(tree)
      /\ \A i \in 1..Len(tree'), j \in 1..Len(tree') :
           nodes'[tree'[i]].concept = nodes'[tree'[j]].concept => i = j

\* C23: extend_ontology(top_n_concepts=N, key) applies type enrichment to
\* exactly the top N nodes of the search tree in decreasing order of key
\* (to all nodes when the tree has fewer than N) and to no other node, and
\* it neither adds nor removes a node: the tree holds the same nodes, one
\* per concept, after the call.
TopNExtension ==
    /\ []TopNEnriched
    /\ [][TreeKept]_vars

\* the parent chain of a node, the node first and the root last
RECURSIVE ChainToRoot(_)
ChainToRoot(n) ==
    IF nodes[n].parent_node = NoNode THEN <<n>>
    ELSE <<n>> \o ChainToRoot(nodes[n].parent_node)

\* C29: show_best_predictions with a serialize_name completes for every
\* node the tree can return, the root included: for each predicted node it
\* emits the node and each of its ancestors once, up to the root, with one
\* subClassOf link from every node that has a parent to that parent.
SerializationCompletes ==
    (/\ report.op = "show_best_predictions"
     /\ report.serialize_name # None
     /\ report.key \in MetricKeys) =>
      /\ report.error = None
      /\ \A k \in 1..Len(report.predictions) :
           LET chain == ChainToRoot(report.predictions[k]) IN
           /\ nodes[chain[Len(chain)]].concept = Thing
           /\ \A th \in 1..Len(chain) :
                /\ <<th - 1, "label",
                     Hypotheses[nodes[chain[th]].concept].str>> \in report.graph
                /\ th < Len(chain) =>
                     <<th - 1, "subClassOf", th>> \in report.graph

(***************************************************************************)
(* Properties of the knowledge base.                                       *)
(***************************************************************************)
\* a step of extend_ontology, taken after the search has ended
TypeEnrichment ==
    /\ run.phase = "Terminated"
    /\ report'.op = "extend_ontology"

\* C22: the knowledge base is changed by nothing but the type enrichment
\* that is invoked after the search has ended: a derivation (negation,
\* union, intersection, restriction) and a step of the expansion loop leave
\* the ontology and the types of its individuals as they are.
KnowledgeBaseKept ==
    [][TypeEnrichment \/ (onto' = onto /\ enriched' = enriched)]_vars

(***************************************************************************)
(* Properties of the bounds on the size of a concept.                      *)
(***************************************************************************)
\* the concepts the size-checked derivations have created: the values of
\* their four memo tables other than Bottom
SizeChecked ==
    {log_of_unions[k] : k \in DOMAIN log_of_unions}
    \cup {log_of_intersections[k] : k \in DOMAIN log_of_intersections}
    \cup {log_of_existential_restriction[k] :
            k \in DOMAIN log_of_existential_restriction}
    \cup {log_of_universal_restriction[k] :
            k \in DOMAIN log_of_universal_restriction}

NonZeroBounds ==
    /\ made.status = "constructed" =>
         /\ made.max # 0 /\ made.min # 0
         /\ max_size_of_concept = made.max
         /\ min_size_of_concept = made.min
    /\ made.status = "AssertionError" => made.max = 0 \/ made.min = 0

\* C27: a generator is constructed only with min_size_of_concept and
\* max_size_of_concept both non-zero, and therefore every concept created by
\* union, intersection, existential_restriction or universal_restriction
\* has a non-empty extension of a size within the two bounds.
SizedAndNonEmpty ==
    /\ NonZeroBounds
    /\ \A c \in SizeChecked \ {Bottom} :
         /\ heap[c].instances # {}
         /\ ConceptLen(c) >= min_size_of_concept
         /\ ConceptLen(c) <= max_size_of_concept

\* C27, amended: the bounds are non-zero and every such concept has an
\* extension of a size within them; the extension is non-empty when
\* min_size_of_concept is at least 1, and a negative min_size_of_concept,
\* which the constructor accepts, admits the empty extension.
SizedWithinBounds ==
    /\ NonZeroBounds
    /\ \A c \in SizeChecked \ {Bottom} :
         /\ ConceptLen(c) >= min_size_of_concept
         /\ ConceptLen(c) <= max_size_of_concept
         /\ min_size_of_concept >= 1 => heap[c].instances # {}

\* a generator with positive bounds that has created an intersection and a
\* restriction
SizedWithinBoundsWitness ==
    /\ made.status = "constructed"
    /\ min_size_of_concept >= 1
    /\ \E k \in DOMAIN log_of_intersections :
         log_of_intersections[k] # Bottom
    /\ \E k \in DOMAIN log_of_universal_restriction :
         log_of_universal_restriction[k] # Bottom

(***************************************************************************)
(* Properties of incCrossProduct.                                          *)
(***************************************************************************)
\* the contents of the two arguments and of the set that is returned
BaseSet == sets[product.baseset]
NewSet == sets[product.newset]
RetSet == sets[product.retset]

\* the value incCrossProduct returns is a set object of its own
ReturnsNewSet ==
    product.phase = "returned" =>
       product.retset \notin {product.baseset, product.newset}

\* with an empty baseset the returned set equals newset
EmptyBaseGivesNewSet ==
    product.phase = "returned" /\ BaseSet = {} => RetSet = NewSet

\* otherwise it holds exactly the unions of the pairs
ExactlyTheUnions ==
    product.phase = "returned" /\ BaseSet # {} =>
       RetSet = {union(i, j).ret : i \in BaseSet, j \in NewSet}

\* no step of the call changes the set objects of the arguments
ArgumentsKept ==
    product.phase = "loop" =>
       /\ sets'[product.baseset] = sets[product.baseset]
       /\ sets'[product.newset] = sets[product.newset]
       /\ product'.baseset = product.baseset
       /\ product'.newset = product.newset

\* C28: incCrossProduct returns a new set equal to newset when baseset is
\* empty, and otherwise exactly the set of gen.union(i, j) for i in baseset
\* and j in newset; the result has at most |baseset| * |newset| elements and
\* the call never modifies baseset or newset.
CrossProduct ==
    /\ [](ReturnsNewSet /\ EmptyBaseGivesNewSet /\ ExactlyTheUnions)
    /\ [](product.phase = "returned" =>
            Cardinality(RetSet) <= Cardinality(BaseSet) * Cardinality(NewSet))
    /\ [][ArgumentsKept]_vars

\* C28, amended: the bound |baseset| * |newset| holds for a non-empty
\* baseset; with an empty baseset the result has the |newset| elements of
\* newset.
CrossProductOfNonEmpty ==
    /\ [](ReturnsNewSet /\ EmptyBaseGivesNewSet /\ ExactlyTheUnions)
    /\ [](product.phase = "returned" =>
            Cardinality(RetSet) <=
               IF BaseSet = {} THEN Cardinality(NewSet)
               ELSE Cardinality(BaseSet) * Cardinality(NewSet))
    /\ [][ArgumentsKept]_vars

\* a product of two sets of two concepts whose four unions are fewer than
\* four concepts
CrossProductOfNonEmptyWitness ==
    /\ product.phase = "returned"
    /\ Cardinality(BaseSet) = 2
    /\ Cardinality(NewSet) = 2
    /\ Cardinality(RetSet) \in {2, 3}

====
